---- MODULE Spec2Model ----
(***************************************************************************)
(* The fetch / retry / persist pipeline of                                 *)
(* src/src/core/utils/appsflyer_reports_process.py, run by src/src/main.py *)
(* under asyncio.run.                                                      *)
(*                                                                         *)
(* One main coroutine (pull_reports) runs on a single event loop; every    *)
(* request it issues is an asyncio Task that progresses on its own and     *)
(* resolves at a moment the network chooses.  A request handle is the pair *)
(* <<reference, round>>: round 0 is the initial dispatch, round n >= 1 is  *)
(* the n-th iteration of the retry loop.                                   *)
(*                                                                         *)
(* Time is counted in tenths of a second.  `now` is the least time that    *)
(* can have elapsed since the initial dispatch: a timed wait that returns  *)
(* with handles still pending has lasted its whole timeout, a sleep lasts  *)
(* its interval, everything else may take no time at all.  The session's   *)
(* total timeout makes a request fail once it is that old, so a handle     *)
(* whose least age has reached the timeout cannot be in flight any more.   *)
(***************************************************************************)
EXTENDS Integers, FiniteSets, Sequences, TLC

\* ---------------------------------------------------------------- bounds
\* Number of references of a run (the program has 2 applications x 4 report
\* kinds; the pipeline treats every reference alike).
MaxReferences == 2

\* Largest retry ceiling tried when _retry_pending_reports is given a
\* ceiling other than its default.
MaxRetryAttempts == 3

\* Longest response body, in bytes, and number of _save_report calls followed
\* when _save_report is modelled byte by byte.
MaxBodyLen == 2
MaxSaveCalls == 2

\* Longest application identifier, in symbols, given to the reference builder.
MaxIdLen == 2

\* ------------------------------------------------------ program constants
\* report_result.content.read(1024)
ReadSize == 1024
\* retry_attempts: int = 3
DefaultRetryAttempts == 3
\* retry_interval: float = 3.0
RetryInterval == 30
\* asyncio.wait(retry_tasks, timeout=5.0)
RetryWaitTimeout == 50
\* asyncio.wait(tasks, timeout=0.1)
InitialWaitTimeout == 1
\* aiohttp.ClientTimeout(total=10.0, connect=6.0)
SessionTotalTimeout == 100

\* ------------------------------------------------------------------ state
VARIABLES
    pc,                     \* where the main coroutine is suspended
    retry_attempts,         \* the ceiling _retry_pending_reports runs with
    attempt,                \* retry rounds started so far (attempt + 1 of the log line)
    status,                 \* <<reference, round>> -> state of that request Task
    result,                 \* <<reference, round>> -> what process_reports read from it
    created,                \* round -> time its tasks were created, -1 before
    tasks,                  \* the handles of the current round (tasks / retry_tasks)
    pending_reports,        \* pending_reports of pull_reports / _retry_pending_reports
    pending_retry_reports,  \* pending_retry_reports of the current retry round
    appsflyer_reports,      \* handles process_reports has still to visit
    partition,              \* round -> the (done, pending) pair asyncio.wait returned
    cancel_calls,           \* <<reference, round>> -> number of Task.cancel() calls
    visits,                 \* <<reference, round>> -> times process_reports visited it
    writing,                \* handles whose report file is open in _save_report
    saved,                  \* reference -> number of files _save_report wrote for it
    error_logs,             \* number of "header not found" error entries logged
    sleeps,                 \* number of asyncio.sleep(retry_interval) calls made
    now,                    \* least elapsed time, in tenths of a second
    handlers,               \* signals that have a loop signal handler
    signalled,              \* the signal received, "none" before
    interrupted,            \* where the main coroutine was when the signal came
    outcome,                \* "Running", "Success", "TooManyRetries", "GracefulExit", "Killed"
    \* _save_report byte by byte
    directory,              \* file path -> bytes of the file, for the files that exist
    report_result,          \* the response being saved: its headers and unread content
    filepath,               \* the path of the file _save_report has open
    save_pc,                \* "idle", or "writing" inside the chunk loop
    save_calls,             \* number of _save_report calls made
    save_errors,            \* number of error entries _save_report logged
    last_saved,             \* the last call that wrote a file: its path and whole body
    \* the reference builder
    application_id_ios,     \* settings.APPLICATION_ID_IOS
    application_id_android, \* settings.APPLICATION_ID_ANDROID
    appsflyer_reports_api,  \* the report kinds
    references,             \* get_all_references_for_all_applications, once built
    reference_pc            \* "start", "built"

pipeline_vars == <<pc, retry_attempts, attempt, status, result, created, tasks, pending_reports,
          pending_retry_reports, appsflyer_reports, partition, cancel_calls, visits,
          writing, saved, error_logs, sleeps, now, handlers, signalled, interrupted,
          outcome>>

save_vars == <<directory, report_result, filepath, save_pc, save_calls, save_errors,
               last_saved>>

reference_vars == <<application_id_ios, application_id_android, appsflyer_reports_api,
                    references, reference_pc>>

vars == <<pipeline_vars, save_vars, reference_vars>>

\* self.appsflyer_all_references: the keys of the reference dictionary
appsflyer_all_references == 1..MaxReferences

Rounds == 0..retry_attempts
Handles == appsflyer_all_references \X Rounds

\* Task states: not created; in flight; finished (it holds a response or an
\* exception); cancelled before it finished.
TaskStates == {"none", "inflight", "done", "cancelled"}

\* What a finished task holds, as process_reports reads it: a response that
\* carries Content-Disposition, a response without it, or an exception.  The
\* upstream chooses it; the program learns it when report.exception() and
\* report.result() are called, and until then it is "unread".
Outcomes == {"ok", "nohdr", "fail"}

\* Mutant: every retry task is named after the same reference.
get_name_of_first(h) == 1

\* task.get_name(): the reference a handle was created for
get_name(h) == h[1]

RefsOf(hs) == {get_name(h) : h \in hs}

NoPartition == [returned |-> FALSE, tasks |-> {}, done |-> {}, pending |-> {}]

\* ------------------------------------------------ library behaviour used
\* Task.cancel(): a request to cancel; it changes nothing on a finished task.
Cancel(st, hs) ==
    [h \in DOMAIN st |-> IF h \in hs /\ st[h] = "inflight" THEN "cancelled" ELSE st[h]]

\* asyncio.create_task for every reference of refs, as handles of round n
CreateTasks(st, refs, n) ==
    [h \in DOMAIN st |-> IF h[2] = n /\ h[1] \in refs THEN "inflight" ELSE st[h]]

\* asyncio.wait(ts, timeout): the finished handles and the unfinished ones
Wait(st, ts) ==
    [returned |-> TRUE,
     tasks    |-> ts,
     done     |-> {h \in ts : st[h] # "inflight"},
     pending  |-> {h \in ts : st[h] = "inflight"}]

\* A wait that returns with handles pending has lasted its whole timeout.
Elapsed(p, timeout) == IF p.pending = {} THEN 0 ELSE timeout

\* ClientSession(timeout=self.session_timeout): a request that has run for
\* the session's total timeout fails with a timeout error.
session_timeout(st, cr, time) ==
    [h \in DOMAIN st |->
        IF st[h] = "inflight" /\ cr[h[2]] + SessionTotalTimeout <= time
        THEN "done" ELSE st[h]]

\* ------------------------------------------------------------ the program
\* Mutant: only the interrupt signal is given a handler.
ShutdownEventsInterruptOnly == {"SIGINT"}

\* __shutdown_events: the signals given a loop signal handler
ShutdownEvents == {"SIGINT", "SIGTERM"}

\* The signals the operating system may deliver to the process.
SystemSignals == {"SIGINT", "SIGTERM"}

\* core.exceptions.GracefulExit raised inside a loop callback stops the loop
\* (it propagates out of run_forever as SystemExit does) instead of being
\* handed to the loop's exception handler.
GracefulExitStopsLoop == TRUE

\* create_tasks_for_request: one task per reference of the reference set
create_tasks_for_request == appsflyer_all_references

\* Mutant: the retry re-issues the whole reference set.
create_tasks_for_every_reference(ts) == appsflyer_all_references

\* _create_tasks_for_retry_request: one task per task given, named after it
create_tasks_for_retry_request(ts) == {get_name(t) : t \in ts}

\* Mutant: the retry loop waits on the handles of the round before.
RetryWaitArgumentStale == pending_reports

\* the handles asyncio.wait is given inside the retry loop
RetryWaitArgument == tasks

\* Mutant: the loop runs one iteration too many.
RangeHasNextInclusive(a, k) == a <= k

\* for attempt in range(retry_attempts): another iteration is due
RangeHasNext(a, k) == a < k

\* Mutant: the loop never breaks.
BreakConditionNever(p) == FALSE

\* if not pending_retry_reports: break
BreakCondition(p) == p = {}

\* Mutant: the retry loop is entered whatever is pending.
NeedsRetryAlways(p) == TRUE

\* if pending_reports: (pull_reports enters the retry loop)
NeedsRetry(p) == p # {}

\* Mutant: every task of the round is carried into the next round.
NextPendingReportsAllTasks == tasks

\* pending_reports = pending_retry_reports
NextPendingReports == pending_retry_reports

\* Mutant: the cancelling loop stops one report early.
ExhaustedCancelsButOne(p) == IF p = {} THEN {} ELSE p \ {CHOOSE h \in p : TRUE}

\* else-branch of the loop: for report in pending_reports: report.cancel()
ExhaustedCancels(p) == p

\* Mutant: process_reports is given every task of the round.
ReportsToProcessAllTasks(p) == p.tasks

\* ProcessAppsflyerReport(done_reports) / ProcessAppsflyerReport(done_retry_reports)
ReportsToProcess(p) == p.done

\* Mutant: the saves are started without being awaited.
SaveAwaitedNever(w) == TRUE

\* await self._save_report(...): process_reports goes on to the next report
\* only when the save it started is over
SaveAwaited(w) == w = {}

\* await ...process_reports() has returned: every report visited, no save open
ProcessReportsReturned == appsflyer_reports = {} /\ writing = {}

\* report.exception() is None
HasNoException(o) == o # "fail"

\* Mutant: every response is taken to carry the header.
HasContentDispositionAlways(o) == TRUE

\* report_result.headers.get("Content-Disposition") is truthy
HasContentDisposition(o) == o = "ok"

\* Mutant: the header test is inverted.
FilesWrittenInverted(o) == IF HasContentDisposition(o) THEN 0 ELSE 1

\* _save_report: the number of files written for a response
\* (one when the response names a file, none otherwise)
FilesWritten(o) == IF HasContentDisposition(o) THEN 1 ELSE 0

\* ------------------------------------------------ _save_report byte by byte
\* Header values are sequences of symbols: "filename=" stands for that
\* substring, "\"" for the quote character, the other symbols for text that
\* holds neither.
ContentDispositions ==
    { <<"attachment; ", "filename=", "\"", "a.csv", "\"">>,
      <<"attachment; ", "filename=", "a.csv">>,
      <<"attachment; ", "filename=", "b.csv">>,
      <<"inline">>,
      <<>> }

\* The headers of a response: a dictionary from header name to value.
NoHeaders == <<>>
ResponseHeaders ==
    {NoHeaders} \cup {("Content-Disposition" :> v) : v \in ContentDispositions}

Bytes == {0, 1}
Bodies == UNION {[1..n -> Bytes] : n \in 0..MaxBodyLen}

\* headers.get("Content-Disposition") is truthy: the header is there and is
\* not the empty string
content_disposition(hs) ==
    "Content-Disposition" \in DOMAIN hs /\ hs["Content-Disposition"] # <<>>

\* str.split(sep)[-1]: what follows the last sep, the whole string without one
SplitLast(str, sep) ==
    LET at == {i \in 1..Len(str) : str[i] = sep}
    IN IF at = {} THEN str
       ELSE SubSeq(str, (CHOOSE i \in at : \A j \in at : j <= i) + 1, Len(str))

RECURSIVE LStrip(_, _)
LStrip(str, c) ==
    IF str # <<>> /\ Head(str) = c THEN LStrip(Tail(str), c) ELSE str

RECURSIVE RStrip(_, _)
RStrip(str, c) ==
    IF str # <<>> /\ str[Len(str)] = c
    THEN RStrip(SubSeq(str, 1, Len(str) - 1), c) ELSE str

\* str.strip('"')
Strip(str, c) == RStrip(LStrip(str, c), c)

\* filename = content_disposition.split("filename=")[-1].strip('"')
filename(hs) == Strip(SplitLast(hs["Content-Disposition"], "filename="), "\"")

\* os.path.join("./reports", "unprocessed", filename)
path_join(name) == <<"./reports", "unprocessed", name>>

\* aiofiles.open(filepath, mode="ab"): the file is created when it is not
\* there and is left as it is when it is
open_ab(dir, path) == IF path \in DOMAIN dir THEN dir ELSE (path :> <<>>) @@ dir

\* f.write(chunk) on a file opened for appending
write(dir, path, chunk) == [dir EXCEPT ![path] = @ \o chunk]

NoCall == [headers |-> NoHeaders, path |-> <<>>, body |-> <<>>, before |-> <<>>,
           made |-> FALSE]

SaveReportInit ==
    /\ directory = <<>>
    /\ report_result = [headers |-> NoHeaders, content |-> <<>>]
    /\ filepath = <<>>
    /\ save_pc = "idle"
    /\ save_calls = 0
    /\ save_errors = 0
    /\ last_saved = NoCall

\* _save_report up to the chunk loop: with the header, work out the path,
\* make the directory and open the file for appending; without it, log an
\* error and return.
SaveReportOpen(hs, body) ==
    /\ save_pc = "idle"
    /\ save_calls < MaxSaveCalls
    /\ save_calls' = save_calls + 1
    /\ report_result' = [headers |-> hs, content |-> body]
    /\ IF content_disposition(hs)
       THEN /\ filepath' = path_join(filename(hs))
            /\ directory' = open_ab(directory, path_join(filename(hs)))
            /\ last_saved' = [headers |-> hs, path |-> path_join(filename(hs)),
                              body |-> body, before |-> directory, made |-> TRUE]
            /\ save_pc' = "writing"
            /\ UNCHANGED save_errors
       ELSE /\ save_errors' = save_errors + 1
            /\ UNCHANGED <<filepath, directory, last_saved, save_pc>>
    /\ UNCHANGED <<pipeline_vars, reference_vars>>

\* while chunk := await report_result.content.read(1024): await f.write(chunk)
\* One turn of the loop: read returns from 1 to 1024 of the bytes left.
SaveReportChunk(k) ==
    /\ save_pc = "writing"
    /\ k >= 1 /\ k <= ReadSize /\ k <= Len(report_result.content)
    /\ directory' = write(directory, filepath, SubSeq(report_result.content, 1, k))
    /\ report_result' = [report_result EXCEPT
                            !.content = SubSeq(@, k + 1, Len(@))]
    /\ UNCHANGED <<filepath, save_pc, save_calls, save_errors, last_saved>>
    /\ UNCHANGED <<pipeline_vars, reference_vars>>

\* read returns b"": the loop ends, the file is closed, the save is logged.
SaveReportClose ==
    /\ save_pc = "writing"
    /\ report_result.content = <<>>
    /\ save_pc' = "idle"
    /\ UNCHANGED <<directory, report_result, filepath, save_calls, save_errors,
                   last_saved>>
    /\ UNCHANGED <<pipeline_vars, reference_vars>>

NextSaveReport ==
    \/ \E hs \in ResponseHeaders, body \in Bodies : SaveReportOpen(hs, body)
    \/ \E k \in 1..MaxBodyLen : SaveReportChunk(k)
    \/ SaveReportClose

\* ------------------------------------------------------ the reference builder
\* Strings are sequences of symbols. "/" is the slash; "organic_" is the
\* prefix two of the report kinds carry; the other symbols are text with no
\* slash in it.
IdSymbols == {"ios", "android", "/", "organic_"}
ApplicationIds == UNION {[1..n -> IdSymbols] : n \in 1..MaxIdLen}

\* AppsflyerReportsAPIEnum.values(), in the order of the enum
AppsflyerReportsAPIEnum ==
    << <<"installs_report">>,
       <<"in_app_events_report">>,
       <<"organic_", "installs_report">>,
       <<"organic_", "in_app_events_report">> >>

\* the members of a tuple at the places in keep, in the tuple's order
RECURSIVE Members(_, _)
Members(tuple, keep) ==
    IF tuple = <<>> THEN <<>>
    ELSE LET front == Members(SubSeq(tuple, 1, Len(tuple) - 1), keep)
         IN IF Len(tuple) \in keep THEN Append(front, tuple[Len(tuple)]) ELSE front

ReportsAPIs ==
    {Members(AppsflyerReportsAPIEnum, keep) :
        keep \in SUBSET (1..Len(AppsflyerReportsAPIEnum))}

appsflyer_api_url == <<"https://hq1.appsflyer.com/api">>

\* Mutant: no slash between the application identifier and the report kind.
ApplicationAndReportJoined(application_id, report_api) ==
    application_id \o report_api \o <<"/">>

\* f"{application_id}/{report_api}/"
ApplicationAndReport(application_id, report_api) ==
    application_id \o <<"/">> \o report_api \o <<"/">>

\* _create_reference_info
create_reference_info(application_id, report_api) ==
    [reference |-> appsflyer_api_url \o <<"/raw-data/export/app/">>
                   \o ApplicationAndReport(application_id, report_api)
                   \o <<"v5?from=", "date_start", "&to=", "date_stop", "&",
                        "additional_fields=", "match_type">>,
     application_id |-> application_id,
     report_api |-> report_api]

\* _create_references_for_application: one dictionary entry per report kind,
\* a later assignment to a key replacing an earlier one
RECURSIVE create_references_for_application(_, _)
create_references_for_application(application_id, reports_api) ==
    IF reports_api = <<>> THEN <<>>
    ELSE LET earlier == create_references_for_application(
                            application_id, SubSeq(reports_api, 1, Len(reports_api) - 1))
             reference_info == create_reference_info(
                                   application_id, reports_api[Len(reports_api)])
         IN (reference_info.reference :>
                <<reference_info.application_id, reference_info.report_api>>) @@ earlier

\* {**ios, **android}: the second dictionary's entry wins on a shared key
get_all_references_for_all_applications(ios, android, reports_api) ==
    create_references_for_application(android, reports_api)
        @@ create_references_for_application(ios, reports_api)

\* the settings main.py runs with
ReferencesInit ==
    /\ application_id_ios = <<"ios">>
    /\ application_id_android = <<"android">>
    /\ appsflyer_reports_api = AppsflyerReportsAPIEnum
    /\ references = <<>>
    /\ reference_pc = "start"

GetAllReferences ==
    /\ reference_pc = "start"
    /\ references' = get_all_references_for_all_applications(
                         application_id_ios, application_id_android, appsflyer_reports_api)
    /\ reference_pc' = "built"
    /\ UNCHANGED <<application_id_ios, application_id_android, appsflyer_reports_api>>
    /\ UNCHANGED <<pipeline_vars, save_vars>>

NextReferences == GetAllReferences

PipelineInit ==
    /\ pc = "start"
    /\ retry_attempts = DefaultRetryAttempts
    /\ attempt = 0
    /\ status = [h \in Handles |-> "none"]
    /\ result = [h \in Handles |-> "unread"]
    /\ created = [n \in Rounds |-> -1]
    /\ tasks = {}
    /\ pending_reports = {}
    /\ pending_retry_reports = {}
    /\ appsflyer_reports = {}
    /\ partition = [n \in Rounds |-> NoPartition]
    /\ cancel_calls = [h \in Handles |-> 0]
    /\ visits = [h \in Handles |-> 0]
    /\ writing = {}
    /\ saved = [r \in appsflyer_all_references |-> 0]
    /\ error_logs = 0
    /\ sleeps = 0
    /\ now = 0
    /\ handlers = {}
    /\ signalled = "none"
    /\ interrupted = "none"
    /\ outcome = "Running"

\* The state main.py starts pull_reports in.
Init == PipelineInit /\ SaveReportInit /\ ReferencesInit

\* _retry_pending_reports called with any ceiling from 1 to MaxRetryAttempts
InitAnyCeiling ==
    /\ pc = "start"
    /\ retry_attempts \in 1..MaxRetryAttempts
    /\ attempt = 0
    /\ status = [h \in Handles |-> "none"]
    /\ result = [h \in Handles |-> "unread"]
    /\ created = [n \in Rounds |-> -1]
    /\ tasks = {}
    /\ pending_reports = {}
    /\ pending_retry_reports = {}
    /\ appsflyer_reports = {}
    /\ partition = [n \in Rounds |-> NoPartition]
    /\ cancel_calls = [h \in Handles |-> 0]
    /\ visits = [h \in Handles |-> 0]
    /\ writing = {}
    /\ saved = [r \in appsflyer_all_references |-> 0]
    /\ error_logs = 0
    /\ sleeps = 0
    /\ now = 0
    /\ handlers = {}
    /\ signalled = "none"
    /\ interrupted = "none"
    /\ outcome = "Running"
    /\ SaveReportInit /\ ReferencesInit

\* pull_reports up to its first suspension: install the signal handlers,
\* create one task per reference, start the 0.1 s wait.
PullReports ==
    /\ pc = "start"
    /\ handlers' = ShutdownEvents
    /\ tasks' = {<<r, 0>> : r \in create_tasks_for_request}
    /\ status' = CreateTasks(status, create_tasks_for_request, 0)
    /\ created' = [created EXCEPT ![0] = now]
    /\ pc' = "initial_wait"
    /\ UNCHANGED <<retry_attempts, attempt, result, pending_reports, pending_retry_reports,
                   appsflyer_reports, partition, cancel_calls, saved, error_logs,
                   sleeps, now, signalled, interrupted, outcome>>
    /\ UNCHANGED <<visits, writing>>
    /\ UNCHANGED <<save_vars, reference_vars>>

\* A request in flight finishes, with a response or an exception.  The
\* network decides when.
Resolve(h) ==
    /\ pc \notin {"start", "exited"}
    /\ status[h] = "inflight"
    /\ status' = [status EXCEPT ![h] = "done"]
    /\ UNCHANGED <<pc, retry_attempts, attempt, result, created, tasks, pending_reports,
                   pending_retry_reports, appsflyer_reports, partition, cancel_calls,
                   saved, error_logs, sleeps, now, handlers, signalled, interrupted, outcome>>
    /\ UNCHANGED <<visits, writing>>
    /\ UNCHANGED <<save_vars, reference_vars>>

\* done_reports, pending_reports = await asyncio.wait(tasks, timeout=0.1)
InitialWait ==
    /\ pc = "initial_wait"
    /\ LET p == Wait(status, tasks)
           t == now + Elapsed(p, InitialWaitTimeout)
       IN /\ partition' = [partition EXCEPT ![0] = p]
          /\ appsflyer_reports' = ReportsToProcess(p)
          /\ pending_reports' = p.pending
          /\ now' = t
          /\ status' = session_timeout(status, created, t)
    /\ pc' = "process"
    /\ UNCHANGED <<retry_attempts, attempt, result, created, tasks, pending_retry_reports,
                   cancel_calls, saved, error_logs, sleeps, handlers, signalled, interrupted, outcome>>
    /\ UNCHANGED <<visits, writing>>
    /\ UNCHANGED <<save_vars, reference_vars>>

\* process_reports, one report of the loop: cancel it when it carries an
\* exception, else call _save_report, which opens the report's file when the
\* response names one and logs an error when it does not.
ProcessReport(h, o) ==
    /\ pc = "process"
    /\ h \in appsflyer_reports
    /\ SaveAwaited(writing)
    /\ appsflyer_reports' = appsflyer_reports \ {h}
    /\ result' = [result EXCEPT ![h] = o]
    /\ visits' = [visits EXCEPT ![h] = @ + 1]
    /\ IF HasNoException(o)
       THEN /\ writing' = IF FilesWritten(o) > 0 THEN writing \cup {h} ELSE writing
            /\ error_logs' = error_logs + (1 - FilesWritten(o))
            /\ UNCHANGED <<status, cancel_calls>>
       ELSE /\ status' = Cancel(status, {h})
            /\ cancel_calls' = [cancel_calls EXCEPT ![h] = @ + 1]
            /\ UNCHANGED <<writing, error_logs>>
    /\ UNCHANGED <<pc, retry_attempts, attempt, created, tasks, pending_reports,
                   pending_retry_reports, partition, saved, sleeps, now, handlers,
                   signalled, interrupted, outcome>>
    /\ UNCHANGED <<save_vars, reference_vars>>

\* _save_report from the open file on: the body is written chunk by chunk,
\* the file is closed and "CSV report saved" is logged.
SaveReport(h) ==
    /\ pc = "process"
    /\ h \in writing
    /\ writing' = writing \ {h}
    /\ saved' = [saved EXCEPT ![get_name(h)] = @ + FilesWritten(result[h])]
    /\ UNCHANGED <<pc, retry_attempts, attempt, status, result, created, tasks,
                   pending_reports, pending_retry_reports, appsflyer_reports, partition,
                   cancel_calls, visits, error_logs, sleeps, now, handlers, signalled,
                   interrupted, outcome>>
    /\ UNCHANGED <<save_vars, reference_vars>>

\* pull_reports after the first process_reports: nothing pending, return.
PullReportsReturn ==
    /\ pc = "process" /\ ProcessReportsReturned /\ attempt = 0
    /\ ~NeedsRetry(pending_reports)
    /\ pc' = "unwinding"
    /\ outcome' = "Success"
    /\ UNCHANGED <<retry_attempts, attempt, status, result, created, tasks, pending_reports,
                   pending_retry_reports, appsflyer_reports, partition, cancel_calls,
                   saved, error_logs, sleeps, now, handlers, signalled, interrupted>>
    /\ UNCHANGED <<visits, writing>>
    /\ UNCHANGED <<save_vars, reference_vars>>

\* pull_reports after the first process_reports: call _retry_pending_reports.
EnterRetry ==
    /\ pc = "process" /\ ProcessReportsReturned /\ attempt = 0
    /\ NeedsRetry(pending_reports)
    /\ pc' = IF RangeHasNext(attempt, retry_attempts) THEN "retry" ELSE "exhausted"
    /\ UNCHANGED <<retry_attempts, attempt, status, result, created, tasks, pending_reports,
                   pending_retry_reports, appsflyer_reports, partition, cancel_calls,
                   saved, error_logs, sleeps, now, handlers, signalled, interrupted, outcome>>
    /\ UNCHANGED <<visits, writing>>
    /\ UNCHANGED <<save_vars, reference_vars>>

\* One iteration of the retry loop up to its wait: create a task for every
\* pending report and start the 5 s wait.
RetryDispatch ==
    /\ pc = "retry"
    /\ attempt' = attempt + 1
    /\ tasks' = {<<r, attempt + 1>> : r \in create_tasks_for_retry_request(pending_reports)}
    /\ status' = CreateTasks(status, create_tasks_for_retry_request(pending_reports),
                             attempt + 1)
    /\ created' = [created EXCEPT ![attempt + 1] = now]
    /\ pc' = "retry_wait"
    /\ UNCHANGED <<retry_attempts, result, pending_reports, pending_retry_reports,
                   appsflyer_reports, partition, cancel_calls, saved, error_logs,
                   sleeps, now, handlers, signalled, interrupted, outcome>>
    /\ UNCHANGED <<visits, writing>>
    /\ UNCHANGED <<save_vars, reference_vars>>

\* done_retry_reports, pending_retry_reports = await asyncio.wait(retry_tasks, timeout=5.0)
RetryWait ==
    /\ pc = "retry_wait"
    /\ LET p == Wait(status, RetryWaitArgument)
           t == now + Elapsed(p, RetryWaitTimeout)
       IN /\ partition' = [partition EXCEPT ![attempt] = p]
          /\ appsflyer_reports' = ReportsToProcess(p)
          /\ pending_retry_reports' = p.pending
          /\ now' = t
          /\ status' = session_timeout(status, created, t)
    /\ pc' = "sleep"
    /\ UNCHANGED <<retry_attempts, attempt, result, created, tasks, pending_reports,
                   cancel_calls, saved, error_logs, sleeps, handlers, signalled, interrupted, outcome>>
    /\ UNCHANGED <<visits, writing>>
    /\ UNCHANGED <<save_vars, reference_vars>>

\* await asyncio.sleep(retry_interval), which comes before process_reports
Sleep ==
    /\ pc = "sleep"
    /\ sleeps' = sleeps + 1
    /\ now' = now + RetryInterval
    /\ status' = session_timeout(status, created, now + RetryInterval)
    /\ pc' = "process"
    /\ UNCHANGED <<retry_attempts, attempt, result, created, tasks, pending_reports,
                   pending_retry_reports, appsflyer_reports, partition, cancel_calls,
                   saved, error_logs, handlers, signalled, interrupted, outcome>>
    /\ UNCHANGED <<visits, writing>>
    /\ UNCHANGED <<save_vars, reference_vars>>

\* if not pending_retry_reports: break
RetryBreak ==
    /\ pc = "process" /\ ProcessReportsReturned /\ attempt >= 1
    /\ BreakCondition(pending_retry_reports)
    /\ pc' = "unwinding"
    /\ outcome' = "Success"
    /\ UNCHANGED <<retry_attempts, attempt, status, result, created, tasks, pending_reports,
                   pending_retry_reports, appsflyer_reports, partition, cancel_calls,
                   saved, error_logs, sleeps, now, handlers, signalled, interrupted>>
    /\ UNCHANGED <<visits, writing>>
    /\ UNCHANGED <<save_vars, reference_vars>>

\* pending_reports = pending_retry_reports, and the loop goes on or runs out
RetryNext ==
    /\ pc = "process" /\ ProcessReportsReturned /\ attempt >= 1
    /\ ~BreakCondition(pending_retry_reports)
    /\ pending_reports' = NextPendingReports
    /\ pc' = IF RangeHasNext(attempt, retry_attempts) THEN "retry" ELSE "exhausted"
    /\ UNCHANGED <<retry_attempts, attempt, status, result, created, tasks,
                   pending_retry_reports, appsflyer_reports, partition, cancel_calls,
                   saved, error_logs, sleeps, now, handlers, signalled, interrupted, outcome>>
    /\ UNCHANGED <<visits, writing>>
    /\ UNCHANGED <<save_vars, reference_vars>>

\* The loop's else branch: cancel the pending reports, raise TooManyRetries.
RetryExhausted ==
    /\ pc = "exhausted"
    /\ status' = Cancel(status, ExhaustedCancels(pending_reports))
    /\ cancel_calls' = [h \in DOMAIN cancel_calls |->
                          IF h \in ExhaustedCancels(pending_reports)
                          THEN cancel_calls[h] + 1 ELSE cancel_calls[h]]
    /\ pc' = "unwinding"
    /\ outcome' = "TooManyRetries"
    /\ UNCHANGED <<retry_attempts, attempt, result, created, tasks, pending_reports,
                   pending_retry_reports, appsflyer_reports, partition, saved,
                   error_logs, sleeps, now, handlers, signalled, interrupted>>
    /\ UNCHANGED <<visits, writing>>
    /\ UNCHANGED <<save_vars, reference_vars>>

\* asyncio.run after the coroutine returned or raised: the tasks still
\* running are cancelled and the loop is closed.
AsyncioRunExit ==
    /\ pc = "unwinding"
    /\ status' = Cancel(status, DOMAIN status)
    /\ pc' = "exited"
    /\ UNCHANGED <<retry_attempts, attempt, result, created, tasks, pending_reports,
                   pending_retry_reports, appsflyer_reports, partition, cancel_calls,
                   saved, error_logs, sleeps, now, handlers, signalled, interrupted, outcome>>
    /\ UNCHANGED <<visits, writing>>
    /\ UNCHANGED <<save_vars, reference_vars>>

\* A signal arrives while the loop runs.  With a handler installed __shutdown
\* raises GracefulExit in a loop callback: the loop stops, asyncio.run cancels
\* every task still running (the main coroutine among them) and the process
\* ends with GracefulExit.  Without a handler the signal ends the process.
Signal(sig) ==
    /\ pc \notin {"start", "exited"}
    /\ signalled = "none"
    /\ signalled' = sig
    /\ interrupted' = pc
    /\ writing' = {}
    /\ IF sig \in handlers
       THEN IF GracefulExitStopsLoop
            THEN /\ outcome' = "GracefulExit"
                 /\ status' = Cancel(status, DOMAIN status)
                 /\ pc' = "exited"
            ELSE UNCHANGED <<outcome, status, pc>>
       ELSE /\ outcome' = "Killed"
            /\ pc' = "exited"
            /\ UNCHANGED status
    /\ UNCHANGED <<retry_attempts, attempt, result, created, tasks, pending_reports,
                   pending_retry_reports, appsflyer_reports, partition, cancel_calls,
                   visits, saved, error_logs, sleeps, now, handlers>>
    /\ UNCHANGED <<save_vars, reference_vars>>

Next ==
    \/ PullReports
    \/ \E h \in Handles : Resolve(h)
    \/ InitialWait
    \/ \E h \in Handles, o \in Outcomes : ProcessReport(h, o)
    \/ \E h \in Handles : SaveReport(h)
    \/ PullReportsReturn
    \/ EnterRetry
    \/ RetryDispatch
    \/ RetryWait
    \/ Sleep
    \/ RetryBreak
    \/ RetryNext
    \/ RetryExhausted
    \/ AsyncioRunExit
    \/ \E sig \in SystemSignals : Signal(sig)

\* ------------------------------------------------------------- the claims
\* The run is over and no signal ended it.
Finished == outcome \in {"Success", "TooManyRetries"} /\ signalled = "none"

\* The handles created in round n.
Dispatched(n) == {h \in Handles : h[2] = n /\ status[h] # "none"}

\* C1: with a retry ceiling K the retry loop starts at most K rounds, and
\* when something is pending after each of the first K-1 retry rounds and
\* the K-th round's partition returns an empty pending set, the loop does
\* not reach its else branch and the run ends in Success.
C1_BoundedRetries ==
    /\ attempt <= retry_attempts
    /\ \A h \in Handles : status[h] # "none" => h[2] <= attempt
    /\ ( /\ partition[retry_attempts].returned
         /\ partition[retry_attempts].pending = {}
         /\ \A n \in 1..(retry_attempts - 1) : partition[n].pending # {} )
       => /\ pc # "exhausted"
          /\ outcome # "TooManyRetries"
          /\ Finished => outcome = "Success" /\ attempt = retry_attempts

C1_Witness ==
    /\ retry_attempts = MaxRetryAttempts
    /\ pc = "exited" /\ outcome = "Success" /\ signalled = "none"
    /\ attempt = retry_attempts
    /\ \A n \in 0..(retry_attempts - 1) : partition[n].pending # {}
    /\ partition[retry_attempts].pending = {}

\* C2: the run is Exhausted exactly when all K retry rounds ran and the
\* partition of each of them, the K-th included, returned a non-empty pending
\* set; then the last pending handles are cancelled.  A run in which no
\* handle is ever returned as done writes no file.
C2_ExhaustedIff ==
    /\ outcome = "TooManyRetries" =>
          /\ attempt = retry_attempts
          /\ \A n \in 1..retry_attempts :
                partition[n].returned /\ partition[n].pending # {}
          /\ \A h \in partition[retry_attempts].pending : status[h] # "inflight"
    /\ ( /\ Finished
         /\ attempt = retry_attempts
         /\ \A n \in 1..retry_attempts : partition[n].pending # {} )
       => outcome = "TooManyRetries"
    /\ pc = "exhausted" =>
          /\ attempt = retry_attempts
          /\ \A n \in 1..retry_attempts : partition[n].pending # {}
    /\ (\A n \in Rounds : partition[n].done = {}) =>
          \A r \in appsflyer_all_references : saved[r] = 0

C2_Witness ==
    /\ retry_attempts = MaxRetryAttempts
    /\ pc = "exited" /\ outcome = "TooManyRetries"
    /\ \A n \in Rounds : partition[n].returned /\ partition[n].done = {}
    /\ \A r \in appsflyer_all_references : saved[r] = 0

\* C3: when TooManyRetries is raised no handle of the run, whichever round
\* created it, is still in flight, the handles pending after the last round
\* have each been cancelled exactly once, and no handle more than once.
C3_ExhaustedCancelsAll ==
    outcome = "TooManyRetries" =>
        /\ \A h \in Handles : status[h] # "inflight"
        /\ \A h \in partition[retry_attempts].pending : cancel_calls[h] = 1
        /\ \A h \in Handles : status[h] = "cancelled" => cancel_calls[h] = 1
        /\ \A h \in Handles : cancel_calls[h] <= 1

C3_Witness ==
    /\ pc = "unwinding" /\ outcome = "TooManyRetries"
    /\ \A r \in appsflyer_all_references :
          /\ status[<<r, retry_attempts>>] = "cancelled"
          /\ \A n \in 0..(retry_attempts - 1) : <<r, n>> \in partition[n].pending

\* C4: every reference has at most one handle in flight at any moment.
C4_OneHandleInFlight ==
    \A r \in appsflyer_all_references :
        Cardinality({n \in Rounds : status[<<r, n>>] = "inflight"}) <= 1

\* C5: a reference whose first-round handle held a failure is not dispatched
\* in any retry round and has no file written; the references dispatched in
\* retry round 1 are exactly those pending after the initial wait, and a run
\* that ends with something pending after the initial wait has run round 1.
C5_FirstRound ==
    /\ \A r \in appsflyer_all_references :
          result[<<r, 0>>] = "fail" =>
              /\ \A n \in 1..retry_attempts : status[<<r, n>>] = "none"
              /\ saved[r] = 0
    /\ attempt >= 1 => RefsOf(Dispatched(1)) = RefsOf(partition[0].pending)
    /\ (Finished /\ partition[0].pending # {}) => attempt >= 1

C5_Witness ==
    /\ pc = "exited" /\ signalled = "none"
    /\ \E r1, r2 \in appsflyer_all_references :
          /\ result[<<r1, 0>>] = "fail"
          /\ <<r2, 0>> \in partition[0].pending
          /\ status[<<r2, 1>>] # "none"

\* C6 as stated: when the run is over, a reference whose handle held a
\* failure in retry round n < K has been dispatched again in round n + 1.
C6_FailureRetried ==
    Finished =>
        \A r \in appsflyer_all_references : \A n \in 1..(retry_attempts - 1) :
            result[<<r, n>>] = "fail" => status[<<r, n + 1>>] # "none"

\* C6 as amended: a reference whose handle held a failure in retry round n is
\* in that round's completed set, is dispatched in no later round and gets no
\* file; and when that round left nothing pending it is the last round and
\* the run ends in Success.
C6_FailureDropped ==
    \A r \in appsflyer_all_references : \A n \in 1..retry_attempts :
        result[<<r, n>>] = "fail" =>
            /\ <<r, n>> \in partition[n].done
            /\ \A m \in (n + 1)..retry_attempts : status[<<r, m>>] = "none"
            /\ saved[r] = 0
            /\ (Finished /\ partition[n].pending = {}) =>
                   outcome = "Success" /\ attempt = n

C6_Witness ==
    /\ pc = "exited" /\ outcome = "Success" /\ signalled = "none"
    /\ attempt = 1
    /\ \A r \in appsflyer_all_references : result[<<r, 1>>] = "fail"

\* What has been persisted comes from responses that carry the header.
OnlyHeaderedSaved ==
    \A r \in appsflyer_all_references :
        saved[r] <= Cardinality({n \in Rounds : result[<<r, n>>] = "ok"})

\* C7: once a signal has arrived after the handlers were installed, the run
\* is over with GracefulExit, no handle is in flight, nothing without a
\* filename header has been persisted, and from then on no round is
\* dispatched and no file is written.
C7_GracefulShutdown ==
    /\ [](signalled # "none" =>
            /\ outcome = "GracefulExit"
            /\ pc = "exited"
            /\ \A h \in Handles : status[h] # "inflight"
            /\ OnlyHeaderedSaved)
    /\ [][signalled # "none" =>
            /\ attempt' = attempt
            /\ status' = status
            /\ saved' = saved
            /\ outcome' = outcome]_vars

C7_Witness ==
    /\ signalled = "SIGTERM" /\ interrupted = "sleep"
    /\ outcome = "GracefulExit"
    /\ attempt = 2
    /\ \E h \in Handles : status[h] = "cancelled"
    /\ \E r \in appsflyer_all_references : saved[r] = 1

\* The first round whose partition returned an empty pending set.
EmptyRounds == {n \in Rounds : partition[n].returned /\ partition[n].pending = {}}
FirstEmptyRound == CHOOSE n \in EmptyRounds : \A m \in EmptyRounds : n <= m

\* C8: when the run is over and every reference had a handle returned as
\* done holding a response with the filename header, every reference has
\* exactly one file written, the retry rounds run are exactly those up to
\* the first round with an empty pending set, and the run is a Success.
C8_AllResolve ==
    ( /\ Finished
      /\ \A r \in appsflyer_all_references : \E n \in Rounds :
            <<r, n>> \in partition[n].done /\ result[<<r, n>>] = "ok" )
    => /\ \A r \in appsflyer_all_references : saved[r] = 1
       /\ outcome = "Success"
       /\ EmptyRounds # {}
       /\ attempt = FirstEmptyRound

C8_Witness ==
    /\ pc = "exited" /\ outcome = "Success" /\ signalled = "none"
    /\ attempt = 2
    /\ \A r \in appsflyer_all_references : saved[r] = 1
    /\ partition[0].done # {} /\ partition[1].pending # {} /\ partition[2].done # {}

\* C9: when the initial partition returns nothing pending, no retry round is
\* run, no handle is dispatched again, no sleep is made, and at the end each
\* reference has one file if its response carried the header, none otherwise.
C9_NoRetryNeeded ==
    (partition[0].returned /\ partition[0].pending = {}) =>
        /\ attempt = 0
        /\ pc \notin {"retry", "retry_wait", "sleep", "exhausted"}
        /\ \A h \in Handles : h[2] >= 1 => status[h] = "none"
        /\ sleeps = 0
        /\ \A r \in appsflyer_all_references : saved[r] <= 1
        /\ Finished =>
              /\ outcome = "Success"
              /\ \A r \in appsflyer_all_references :
                    saved[r] = IF result[<<r, 0>>] = "ok" THEN 1 ELSE 0

C9_Witness ==
    /\ pc = "exited" /\ outcome = "Success" /\ signalled = "none"
    /\ partition[0].returned /\ partition[0].pending = {}
    /\ \E r \in appsflyer_all_references : saved[r] = 1
    /\ \E r \in appsflyer_all_references : result[<<r, 0>>] = "nohdr"

\* C10: the (done, pending) pair a wait returns for a round is a disjoint
\* cover of exactly the handles dispatched in that round, and the step that
\* returns it cancels nothing: the handles returned pending are in flight.
C10_Partition ==
    /\ [](\A n \in Rounds : partition[n].returned =>
            /\ partition[n].done \cup partition[n].pending = Dispatched(n)
            /\ partition[n].done \cap partition[n].pending = {}
            /\ Cardinality(partition[n].done) + Cardinality(partition[n].pending)
                 = Cardinality(Dispatched(n)))
    /\ [][\A n \in Rounds :
            (~partition[n].returned /\ partition'[n].returned) =>
                /\ cancel_calls' = cancel_calls
                /\ \A h \in partition'[n].pending : status'[h] = "inflight"
                /\ \A h \in partition'[n].done : status'[h] = "done"]_vars

C10_Witness ==
    /\ pc = "sleep" /\ attempt = 2
    /\ partition[2].returned
    /\ partition[2].done # {} /\ partition[2].pending # {}

\* The Content-Disposition header of a response names a file.
NamesAFile(hs) ==
    /\ content_disposition(hs)
    /\ \E i \in 1..Len(hs["Content-Disposition"]) :
          hs["Content-Disposition"][i] = "filename="

\* C11 as stated: once _save_report has returned from a response whose
\* header names a file, the file at that path holds exactly the bytes of the
\* body, in order, whatever the path held before the call and however the
\* body was split into chunks.
C11_FileIsBody ==
    (save_pc = "idle" /\ last_saved.made /\ NamesAFile(last_saved.headers))
        => directory[last_saved.path] = last_saved.body

\* C12: a response read without the header puts nothing in the output
\* directory (no write is started, no file is counted, neither for it nor
\* for its reference in the whole run), adds exactly one error entry to the
\* log, and its reference gets no handle in any later round.
C12_NoHeaderDiscarded ==
    /\ [](\A h \in Handles :
            result[h] = "nohdr"
                => /\ h \notin writing
                   /\ saved[get_name(h)] = 0
                   /\ \A n \in Rounds : n > h[2] => status[<<h[1], n>>] = "none")
    /\ [](error_logs = Cardinality({h \in Handles : result[h] = "nohdr"}))
    /\ [][\A h \in Handles :
            (result[h] # "nohdr" /\ result'[h] = "nohdr")
                => /\ saved' = saved
                   /\ writing' = writing
                   /\ error_logs' = error_logs + 1]_vars

\* C12's case: a run that ended after a response without the header was read
\* in one round and a later round was dispatched.
C12_Witness ==
    /\ Finished
    /\ \E h \in Handles :
          /\ result[h] = "nohdr"
          /\ Dispatched(h[2] + 1) # {}
    /\ error_logs >= 1

\* C13: the dictionary the builder returns has exactly one reference for each
\* (application identifier, report kind) pair, as many references as there
\* are pairs, and maps each reference to the pair it was built for.
C13_DistinctReferences ==
    reference_pc = "built" =>
        LET targets == {application_id_ios, application_id_android}
                          \X {appsflyer_reports_api[i] :
                                i \in 1..Len(appsflyer_reports_api)}
        IN /\ Cardinality(DOMAIN references) = Cardinality(targets)
           /\ \A r \in DOMAIN references : references[r] \in targets
           /\ \A t \in targets : \E r \in DOMAIN references : references[r] = t

\* C13's case: all four report kinds, and two identifiers of which one is
\* the other followed by the prefix of a report kind.
C13_Witness ==
    /\ reference_pc = "built"
    /\ Len(appsflyer_reports_api) = 4
    /\ application_id_android = application_id_ios \o <<"organic_">>
    /\ Cardinality(DOMAIN references) = 8

\* The references a set of handles was created for.
ReferencesOf(hs) == {h[1] : h \in hs}

\* C14 as stated: once the sleep of retry round n has been made, every
\* outcome that round's partition returned as done has been persisted.
C14_PersistBeforeSleep ==
    \A n \in 1..retry_attempts :
        sleeps >= n =>
            \A h \in partition[n].done : visits[h] = 1 /\ h \notin writing

\* C15: retry round n dispatches exactly one handle for each reference whose
\* handle the partition of round n - 1 returned as pending, and none for any
\* other reference; the references dispatched never grow from round to round.
C15_RedispatchPending ==
    /\ \A n \in 1..retry_attempts :
          IF n <= attempt
          THEN /\ ReferencesOf(Dispatched(n)) = ReferencesOf(partition[n - 1].pending)
               /\ Cardinality(Dispatched(n)) = Cardinality(partition[n - 1].pending)
               /\ ReferencesOf(Dispatched(n)) \subseteq ReferencesOf(Dispatched(n - 1))
               /\ Dispatched(n) # {}
          ELSE Dispatched(n) = {}
    /\ pc = "retry_wait" => tasks = Dispatched(attempt)

C15_Witness ==
    /\ pc = "retry_wait" /\ attempt = 2
    /\ Cardinality(Dispatched(0)) = 2
    /\ Cardinality(Dispatched(1)) = 2
    /\ Cardinality(Dispatched(2)) = 1

\* C16: a handle of round n + 1 exists only when the partition of round n has
\* returned, and a report is visited by process_reports, and its file opened,
\* only when its handle has finished and was returned in a done set.
C16_RoundsInOrder ==
    /\ \A n \in 1..retry_attempts :
          Dispatched(n) # {} => partition[n - 1].returned
    /\ \A n \in Rounds :
          (partition[n].returned \/ Dispatched(n) # {}) =>
              \A m \in 0..(n - 1) : partition[m].returned
    /\ \A h \in Handles :
          (visits[h] > 0 \/ h \in writing \/ h \in appsflyer_reports) =>
              /\ h \in partition[h[2]].done
              /\ status[h] = "done"
    /\ \A r \in appsflyer_all_references :
          saved[r] > 0 => \E n \in Rounds : <<r, n>> \in partition[n].done

C16_Witness ==
    /\ pc = "process" /\ attempt = 2
    /\ \E h \in writing : h[2] = 2
    /\ \E r \in appsflyer_all_references : saved[r] = 1

\* C17: every reference is persisted at most once: a reference with a handle
\* returned as done is not dispatched again, a handle returned as done is
\* visited by process_reports once (and exactly once when the run is over),
\* and a handle returned as pending is never visited, whatever it holds later.
C17_PersistedOnce ==
    /\ \A r \in appsflyer_all_references :
          /\ saved[r] <= 1
          /\ Cardinality({n \in Rounds : visits[<<r, n>>] > 0}) <= 1
          /\ \A n \in Rounds :
                <<r, n>> \in partition[n].done =>
                    \A m \in (n + 1)..retry_attempts : status[<<r, m>>] = "none"
    /\ \A h \in Handles :
          /\ visits[h] <= 1
          /\ h \in partition[h[2]].pending => visits[h] = 0 /\ result[h] = "unread"
          /\ Finished => (visits[h] = 1 <=> h \in partition[h[2]].done)

C17_Witness ==
    /\ pc = "exited" /\ outcome = "Success" /\ signalled = "none"
    /\ \E r \in appsflyer_all_references :
          /\ <<r, 0>> \in partition[0].pending
          /\ status[<<r, 0>>] = "done"
          /\ <<r, 1>> \in partition[1].done
          /\ saved[r] = 1

\* C18: at most one report file is open at any moment, it belongs to the
\* round whose process_reports is running, and nothing else of the main
\* coroutine runs meanwhile.
C18_OneWriter ==
    /\ Cardinality(writing) <= 1
    /\ writing # {} => pc = "process"
    /\ \A h \in writing \cup appsflyer_reports : h[2] = attempt

C18_Witness ==
    /\ writing # {} /\ appsflyer_reports # {}
    /\ \E h \in Handles : status[h] = "inflight"

\* The steps of the main coroutine and of asyncio.run, each of which is
\* taken once the wait, sleep or write it is suspended in returns.
MainCoroutine ==
    \/ PullReports
    \/ InitialWait
    \/ \E h \in Handles, o \in Outcomes : ProcessReport(h, o)
    \/ \E h \in Handles : SaveReport(h)
    \/ PullReportsReturn
    \/ EnterRetry
    \/ RetryDispatch
    \/ RetryWait
    \/ Sleep
    \/ RetryBreak
    \/ RetryNext
    \/ RetryExhausted
    \/ AsyncioRunExit

\* C19: every run ends, whatever the requests do, and never starts more than
\* the initial round and K retry rounds.
C19_Terminates ==
    /\ <>(pc = "exited")
    /\ [](attempt <= retry_attempts /\ sleeps <= retry_attempts)

C19_Witness ==
    /\ pc = "exited" /\ outcome = "TooManyRetries"
    /\ attempt = retry_attempts /\ sleeps = retry_attempts
    /\ \A h \in Handles : status[h] \in {"done", "cancelled"} /\ visits[h] = 0

\* The program as main.py runs it: the default retry ceiling.
Spec == Init /\ [][Next]_vars

\* The program with the event loop resuming the main coroutine whenever the
\* wait, sleep or write it is suspended in has returned.
FairSpec == Init /\ [][Next]_vars /\ WF_vars(MainCoroutine)

\* _retry_pending_reports with every ceiling from 1 to MaxRetryAttempts.
SpecAnyCeiling == InitAnyCeiling /\ [][Next]_vars

\* _save_report called on one response after another, the output directory
\* empty at the start
SpecSaveReport == Init /\ [][NextSaveReport]_vars

\* the reference builder under any two application identifiers and any
\* choice of report kinds
InitReferences ==
    /\ PipelineInit /\ SaveReportInit
    /\ application_id_ios \in ApplicationIds
    /\ application_id_android \in ApplicationIds
    /\ appsflyer_reports_api \in ReportsAPIs
    /\ references = <<>>
    /\ reference_pc = "start"

SpecReferences == InitReferences /\ [][NextReferences]_vars

====
